---- MODULE Spec2Model ----
(***************************************************************************)
(* Product CRUD service: the Express router of backend/index.js (and its   *)
(* second route-definition file, which lacks the image_url rule) on top of *)
(* the MongoDB gateway of backend/db.js.                                   *)
(*                                                                         *)
(* A request passes three moments, each a step of its own: the           *)
(* synchronous part of the handler (validation, ObjectId parsing, issuing  *)
(* the store call; for an insert the driver assigns _id here), the store   *)
(* applying the call, and the promise callback that answers once the       *)
(* reply has arrived.  Calls in flight are applied in any order and their  *)
(* replies arrive in any order.  Each single-document call is atomic in    *)
(* the store.                                                              *)
(*                                                                         *)
(* Library behaviour the source relies on:                                 *)
(*  - express-validator 7 (checkExact exists only there): standard         *)
(*    validators run on the string form of the value, isString on the      *)
(*    value itself, checkExact reports every body field without a chain;   *)
(*  - mongodb driver with ModifyResult ({value, ok}) from findOneAndDelete,*)
(*    which is what DB.delete reads;                                       *)
(*  - bson ObjectId(string): 24 hex characters, anything else throws.      *)
(*    12-character strings (accepted as raw bytes by some bson releases)   *)
(*    are kept out of the inputs.                                          *)
(***************************************************************************)
EXTENDS Bags, FiniteSets, Integers, Sequences, TLC

(* Bounds *)
MaxProducts == 2
MaxInFlight == 2

VARIABLES
    routes,      \* which route-definition file serves: "index.js" or "part_000"
    faults,      \* whether store calls may reject in this run
    collection,  \* db.js `collection`: the stored documents in natural order
    nextOid,     \* number of ObjectIds the driver has generated so far
    pending,     \* bag of store calls in flight: issued, or applied and not yet answered
    completed,   \* the handler run that finished most recently, with its response
    history,     \* history: per ObjectId, the last write the store applied
    okDeletes    \* history: per ObjectId, number of DELETEs answered 200 (capped at 2)

vars == <<routes, faults, collection, nextOid, pending, completed, history, okDeletes>>

----------------------------------------------------------------------------
(* JSON values.  Numbers are kept in hundredths (16.50 is Num(1650)). *)

Str(s) == [str |-> s]
Num(h) == [num |-> h]
Undefined == [undefined |-> TRUE]
Null == [null |-> TRUE]

IsStr(v) == DOMAIN v = {"str"}
IsNum(v) == DOMAIN v = {"num"}

Field(body, f) == IF f \in DOMAIN body THEN body[f] ELSE Undefined
Without(body, f) == [g \in DOMAIN body \ {f} |-> body[g]]
With(body, f, v) == [g \in DOMAIN body \cup {f} |-> IF g = f THEN v ELSE body[g]]

ProductFields == {"name", "description", "price", "stock", "image_url"}

----------------------------------------------------------------------------
(* Validators of express-validator / validator.js on the modelled values *)

NotANumber == [nan |-> TRUE]

\* parseFloat of a string, for the strings the inputs use
StringAsNumber(s) ==
    CASE s = "16.50" -> Num(1650)
      [] s = "5" -> Num(500)
      [] s = "-1" -> Num(-100)
      [] OTHER -> NotANumber

\* the numeric reading of toString(value); undefined becomes "" (no number)
AsNumber(v) ==
    IF IsNum(v) THEN v
    ELSE IF IsStr(v) THEN StringAsNumber(v.str)
    ELSE NotANumber

isString(v) == IsStr(v)

isFloatMin0(v) ==
    LET n == AsNumber(v) IN IsNum(n) /\ n.num >= 0

isIntMin0(v) ==
    LET n == AsNumber(v) IN IsNum(n) /\ n.num % 100 = 0 /\ n.num >= 0

(* isURL(str, {require_valid_protocol: false, require_tld: false,          *)
(* require_host: false}) of validator.js, on the strings that occur here:  *)
(* empty or with whitespace fails; scheme, path, query and port are split  *)
(* off; the remaining host must be an IP or a domain name whose labels are *)
(* alphanumeric with inner hyphens and whose last label is not all digits. *)
(* A string outside the table has no verdict in the model.                 *)
isURLString(s) ==
    CASE s = "https://example.com" -> TRUE
      [] s = "https://www.google.com" -> TRUE
      [] s = "red" -> TRUE
      [] s = "Plankton" -> TRUE
      [] s = "00000000000000000000000a" -> TRUE
      [] s = "" -> FALSE
      [] s = "Mr. Krabs" -> FALSE
      [] s = "Geiziger Restaurantbesitzer" -> FALSE
      [] s = "16.50" -> FALSE
      [] s = "5" -> FALSE
      [] s = "-1" -> FALSE

\* a number is validated as its decimal string, whose last label is all digits;
\* undefined as ""
isURL(v) == IsStr(v) /\ isURLString(v.str)

Passes(validator, v) ==
    CASE validator = "isString" -> isString(v)
      [] validator = "isFloat" -> isFloatMin0(v)
      [] validator = "isInt" -> isIntMin0(v)
      [] validator = "isURL" -> isURL(v)

nameRule == [path |-> "name", validator |-> "isString", msg |-> "Name must be a string"]
descriptionRule ==
    [path |-> "description", validator |-> "isString", msg |-> "Description must be a string"]
priceRule == [path |-> "price", validator |-> "isFloat", msg |-> "Price must be a positive float"]
stockRule == [path |-> "stock", validator |-> "isInt", msg |-> "Stock must be a positive integer"]
imageUrlRule == [path |-> "image_url", validator |-> "isURL", msg |-> "URL must be a valid URL"]

\* the check(...) chains of the route file, in declaration order
productValidationRules(file) ==
    IF file = "index.js"
    THEN <<nameRule, descriptionRule, priceRule, stockRule, imageUrlRule>>
    ELSE <<nameRule, descriptionRule, priceRule, stockRule>>

RuleFails(rule, body) == ~Passes(rule.validator, Field(body, rule.path))

RECURSIVE FieldErrors(_, _)
FieldErrors(rules, body) ==
    IF rules = <<>> THEN <<>>
    ELSE LET rule == Head(rules)
             rest == FieldErrors(Tail(rules), body)
         IN IF RuleFails(rule, body)
            THEN <<[type |-> "field", path |-> rule.path, msg |-> rule.msg,
                    location |-> "body"]>> \o rest
            ELSE rest

\* checkExact([], {locations: ['body']}): body fields that no chain of the route names
UnknownFields(rules, body) ==
    DOMAIN body \ {rules[i].path : i \in 1..Len(rules)}

ExactErrors(rules, body) ==
    IF UnknownFields(rules, body) = {} THEN <<>>
    ELSE <<[type |-> "unknown_fields", msg |-> "No additional fields allowed",
            fields |-> UnknownFields(rules, body)]>>

\* validationResult(req).array()
ValidationErrors(file, body) ==
    LET rules == productValidationRules(file)
    IN FieldErrors(rules, body) \o ExactErrors(rules, body)

\* validationResult(req).isEmpty()
ResultIsEmptyAlways(errors) == TRUE
ResultIsEmpty(errors) == errors = <<>>

----------------------------------------------------------------------------
(* ObjectId: 12 bytes, kept as 24 nibbles *)

HexLower == <<"0", "1", "2", "3", "4", "5", "6", "7", "8", "9", "a", "b", "c", "d", "e", "f">>
HexUpper == <<"0", "1", "2", "3", "4", "5", "6", "7", "8", "9", "A", "B", "C", "D", "E", "F">>
HexChars == {HexLower[i] : i \in 1..16} \cup {HexUpper[i] : i \in 1..16}

NibbleOf(c) == CHOOSE n \in 0..15 : HexLower[n + 1] = c \/ HexUpper[n + 1] = c

\* new ObjectId(id) throws unless id is a 24 character hex string
ObjectIdThrows(id) == ~(Len(id) = 24 /\ \A i \in 1..24 : id[i] \in HexChars)

ObjectId(id) == [i \in 1..24 |-> NibbleOf(id[i])]

toHexString(oid) == [i \in 1..24 |-> HexLower[oid[i] + 1]]

\* the n-th identifier the driver generates; distinct for distinct n
GeneratedOid(n) == [i \in 1..24 |-> IF i = 24 THEN 9 + n ELSE 0]

\* the counter behind the generated identifiers
AdvanceRepeats(n) == IF n = 0 THEN 1 ELSE n
Advance(n) == n + 1

AllOids == {GeneratedOid(n) : n \in 1..MaxProducts}

----------------------------------------------------------------------------
(* The store calls of db.js on the collection *)

IdOf(doc) == doc["_id"].oid

\* positions of the documents the filter { _id } matches
Matching(coll, oid) == {i \in 1..Len(coll) : IdOf(coll[i]) = oid}

First(S) == CHOOSE i \in S : \A j \in S : i <= j

RemoveAt(coll, i) == SubSeq(coll, 1, i - 1) \o SubSeq(coll, i + 1, Len(coll))

\* collection.findOne({_id})
findOne(coll, oid) ==
    IF Matching(coll, oid) = {} THEN Null ELSE coll[First(Matching(coll, oid))]

\* collection.find().toArray(): a JSON array of the documents
find(coll) == [array |-> coll]

\* collection.insertOne(product): the driver generates _id; the store keeps _id unique
insertOneDropsStock(coll, product, n) ==
    LET doc == With(Without(product, "stock"), "_id", [oid |-> GeneratedOid(n)])
    IN IF Matching(coll, GeneratedOid(n)) # {}
       THEN [coll |-> coll, error |-> "E11000 duplicate key error",
             result |-> [acknowledged |-> FALSE, insertedId |-> GeneratedOid(n)]]
       ELSE [coll |-> Append(coll, doc), error |-> "",
             result |-> [acknowledged |-> TRUE, insertedId |-> GeneratedOid(n)]]
insertOne(coll, product, n) ==
    LET doc == With(product, "_id", [oid |-> GeneratedOid(n)])
    IN IF Matching(coll, GeneratedOid(n)) # {}
       THEN [coll |-> coll, error |-> "E11000 duplicate key error",
             result |-> [acknowledged |-> FALSE, insertedId |-> GeneratedOid(n)]]
       ELSE [coll |-> Append(coll, doc), error |-> "",
             result |-> [acknowledged |-> TRUE, insertedId |-> GeneratedOid(n)]]

\* collection.replaceOne({_id}, product): whole-document replacement, _id kept, no upsert
replaceOneMerges(coll, oid, product) ==
    IF Matching(coll, oid) = {}
    THEN [coll |-> coll, result |-> [matchedCount |-> 0, modifiedCount |-> 0]]
    ELSE LET i == First(Matching(coll, oid))
             old == coll[i]
             new == [f \in DOMAIN old |->
                        IF f = "price" /\ f \in DOMAIN product THEN product[f] ELSE old[f]]
         IN [coll |-> [coll EXCEPT ![i] = new],
             result |-> [matchedCount |-> 1, modifiedCount |-> IF new = old THEN 0 ELSE 1]]
replaceOne(coll, oid, product) ==
    IF Matching(coll, oid) = {}
    THEN [coll |-> coll, result |-> [matchedCount |-> 0, modifiedCount |-> 0]]
    ELSE LET i == First(Matching(coll, oid))
             old == coll[i]
             new == With(product, "_id", old["_id"])
         IN [coll |-> [coll EXCEPT ![i] = new],
             result |-> [matchedCount |-> 1, modifiedCount |-> IF new = old THEN 0 ELSE 1]]

\* collection.findOneAndDelete({_id}): ModifyResult
findOneAndDeleteKeeps(coll, oid) ==
    [coll |-> coll, result |-> [ok |-> 1, value |-> findOne(coll, oid)]]
findOneAndDelete(coll, oid) ==
    IF Matching(coll, oid) = {}
    THEN [coll |-> coll, result |-> [ok |-> 1, value |-> Null]]
    ELSE LET i == First(Matching(coll, oid))
         IN [coll |-> RemoveAt(coll, i), result |-> [ok |-> 1, value |-> coll[i]]]

----------------------------------------------------------------------------
(* The gateway methods of db.js.  Each yields the collection after the     *)
(* store has applied the call and the settlement of the promise it         *)
(* returns.                                                                *)

Resolved(v) == [resolved |-> v]
Rejected(m) == [rejected |-> m]
Unsettled == [unsettled |-> TRUE]
IsResolved(s) == DOMAIN s = {"resolved"}
IsSettled(s) == s # Unsettled

\* the store call itself rejects and the collection stays as it was
StoreFailure(coll) == [coll |-> coll, settle |-> Rejected("store call failed")]

DB_queryAll(coll) == [coll |-> coll, settle |-> Resolved(find(coll))]

DB_queryById(coll, id) == [coll |-> coll, settle |-> Resolved(findOne(coll, ObjectId(id)))]

DB_insert(coll, product, n) ==
    LET r == insertOne(coll, product, n)
    IN [coll |-> r.coll,
        settle |-> IF r.error # "" THEN Rejected(r.error)
                   ELSE IF r.result.acknowledged
                   THEN Resolved(With(product, "_id", [oid |-> r.result.insertedId]))
                   ELSE Rejected("Error inserting product")]

DB_update(coll, id, body) ==
    LET _id == ObjectId(id)
        product == IF "_id" \in DOMAIN body /\ IsStr(body["_id"])
                   THEN With(body, "_id", [oid |-> _id])
                   ELSE body
        r == replaceOne(coll, _id, product)
    IN [coll |-> r.coll,
        settle |-> IF r.result.modifiedCount = 1 \/ r.result.matchedCount = 1
                   THEN Resolved(product)
                   ELSE Rejected("Error updating product")]

DB_delete(coll, id) ==
    LET r == findOneAndDelete(coll, ObjectId(id))
    IN [coll |-> r.coll,
        settle |-> IF r.result.ok = 1
                   THEN Resolved(r.result.value)
                   ELSE Rejected("Error deleting product")]

----------------------------------------------------------------------------
(* Requests and responses *)

GET_ALL == "GET /products"
GET_ONE == "GET /products/:id"
POST == "POST /products"
PUT == "PUT /products/:id"
DELETE == "DELETE /products/:id"

NoId == <<>>
EmptyBody == <<>>

Request(method, id, body) == [method |-> method, id |-> id, body |-> body]

\* status of a handler run that ended without sending a response
NoResponse == 0

Text(status, s) == [status |-> status, resBody |-> [text |-> s]]

\* JSON.stringify of a document: an ObjectId is written as its hex string
Render(doc) ==
    [f \in DOMAIN doc |-> IF f = "_id" THEN [hex |-> toHexString(doc[f].oid)] ELSE doc[f]]

\* the .then / .catch callbacks of the routes
QueryAllThen(products) ==
    [status |-> 200,
     resBody |-> [products |->
                    [i \in 1..Len(products.array) |-> Render(products.array[i])]]]

QueryByIdThen(product) ==
    IF product # Null
    THEN [status |-> 200, resBody |-> [product |-> Render(product)]]
    ELSE Text(404, "Product not found")
QueryByIdCatch == Text(500, "Error querying product")

InsertThen(product) == [status |-> 201, resBody |-> [product |-> Render(product)]]
InsertCatch == Text(500, "Error inserting product")

UpdateThen(product) ==
    IF product # Null
    THEN [status |-> 200, resBody |-> [product |-> Render(product)]]
    ELSE Text(404, "Product not found")
UpdateCatch == Text(500, "Error updating product")

DeleteThen(product) ==
    IF product # Null
    THEN [status |-> 200, resBody |-> [product |-> Render(product)]]
    ELSE Text(404, "Product not found")
DeleteCatch == Text(500, "Error deleting product")

Invalid(errors) == [status |-> 400, resBody |-> [errors |-> errors]]

----------------------------------------------------------------------------
(* Inputs *)

P1 ==
    [name |-> Str("Mr. Krabs"), description |-> Str("Geiziger Restaurantbesitzer"),
     price |-> Num(1650), stock |-> Num(500), image_url |-> Str("https://example.com")]
P2 ==
    [name |-> Str("Plankton"), description |-> Str(""),
     price |-> Num(0), stock |-> Num(0), image_url |-> Str("https://www.google.com")]

InvalidAndExtra ==
    [name |-> Num(100), price |-> Num(-1), stock |-> Num(550),
     image_url |-> Str("Mr. Krabs"), color |-> Str("red")]

\* bodies sent to POST /products: both products, the first without
\* image_url, and a body that breaks several rules
PostBodies == {P1, P2, Without(P1, "image_url"), InvalidAndExtra}

\* bodies sent to PUT /products/:id: the second product, which replaces the
\* first or meets itself, the same without image_url, and the invalid body
PutBodies == {P2, Without(P2, "image_url"), InvalidAndExtra}

\* the first generated identifier, written in upper case
WellFormedIds == {[toHexString(GeneratedOid(1)) EXCEPT ![24] = "A"]}

\* 24 characters, the last one not a hex digit
MalformedIds == {[toHexString(GeneratedOid(1)) EXCEPT ![24] = "g"]}

PathIds == WellFormedIds \cup MalformedIds

\* whether the store call of a request rejects
FailChoices == IF faults THEN {FALSE, TRUE} ELSE {FALSE}

----------------------------------------------------------------------------
(* History: what the store had applied and what had been answered when a   *)
(* call was applied                                                        *)

NoWrite == [by |-> "none", doc |-> EmptyBody, answered |-> FALSE]

Applied(by, oid, doc) ==
    [history EXCEPT ![oid] = [by |-> by, doc |-> doc, answered |-> FALSE]]

\* a success response for the write that is still the last one applied on oid
Answered(by, oid, doc) ==
    IF history[oid].by = by /\ history[oid].doc = doc
    THEN [history EXCEPT ![oid].answered = TRUE]
    ELSE history

CountOk(oid) == [okDeletes EXCEPT ![oid] = IF @ < 2 THEN @ + 1 ELSE @]

NoSeen == [found |-> FALSE, gone |-> FALSE, expect |-> NoWrite]

\* for a read: was a DELETE on oid answered 200 before, and which answered
\* write is the last one applied on oid
SeenByRead(oid) ==
    [found |-> Matching(collection, oid) # {},
     gone |-> okDeletes[oid] >= 1,
     expect |-> IF history[oid].answered THEN history[oid] ELSE NoWrite]

\* for a write: did a document with that id exist when the call was applied
SeenByWrite(oid) ==
    [found |-> Matching(collection, oid) # {}, gone |-> FALSE, expect |-> NoWrite]

----------------------------------------------------------------------------
(* Calls in flight and finished handler runs *)

\* n: for an insert, the number of the _id the driver assigned at the call
Call(req, n, settle, seen) == [req |-> req, n |-> n, settle |-> settle, seen |-> seen]

Completed(req, seen, called, response) ==
    [req |-> req, seen |-> seen, called |-> called,
     status |-> response.status, resBody |-> response.resBody]

(* An async handler whose promise rejects with nothing to catch it: the    *)
(* gateway threw before returning its promise (new ObjectId), or an        *)
(* awaited call rejected outside any try.  The routes pass no error on to  *)
(* the framework.  A framework that ignores the handler's promise sends    *)
(* nothing; one that observes it answers with its own 500.                 *)
UnhandledRejection(req, seen, called) ==
    {Completed(req, seen, called, [status |-> NoResponse, resBody |-> [none |-> TRUE]]),
     Completed(req, seen, called, Text(500, "Internal Server Error"))}

Accepting == BagCardinality(pending) < MaxInFlight

Issue(call) == pending' = pending (+) SetToBag({call})
Apply(call, settle, seen) ==
    pending' = (pending (-) SetToBag({call}))
                  (+) SetToBag({Call(call.req, call.n, settle, seen)})
Deliver(call) == pending' = pending (-) SetToBag({call})

InFlight(method) == {c \in BagToSet(pending) : c.req.method = method}
Issued(method) == {c \in InFlight(method) : ~IsSettled(c.settle)}
Replied(method) == {c \in InFlight(method) : IsSettled(c.settle)}

----------------------------------------------------------------------------
(* Initial state: connected, empty collection, nothing in flight *)

NoneCompleted ==
    Completed(Request("none", NoId, EmptyBody), NoSeen, "none",
              [status |-> NoResponse, resBody |-> [none |-> TRUE]])

InitCommon ==
    /\ collection = <<>>
    /\ nextOid = 0
    /\ pending = EmptyBag
    /\ completed = NoneCompleted
    /\ history = [o \in AllOids |-> NoWrite]
    /\ okDeletes = [o \in AllOids |-> 0]

Init == routes = "index.js" /\ faults = FALSE /\ InitCommon

InitVariants == routes \in {"index.js", "part_000"} /\ faults = FALSE /\ InitCommon

InitFaulty == routes = "index.js" /\ faults = TRUE /\ InitCommon

----------------------------------------------------------------------------
(* app.get('/products'): db.queryAll() is called and awaited *)
GetProducts ==
    /\ Accepting
    /\ Issue(Call(Request(GET_ALL, NoId, EmptyBody), 0, Unsettled, NoSeen))
    /\ UNCHANGED <<routes, faults, collection, nextOid, completed, history, okDeletes>>

\* the store runs find()
QueryAllApplied ==
    \E call \in Issued(GET_ALL), fails \in FailChoices :
        LET r == IF fails THEN StoreFailure(collection) ELSE DB_queryAll(collection)
        IN /\ Apply(call, r.settle, NoSeen)
           /\ UNCHANGED <<routes, faults, collection, nextOid, completed, history, okDeletes>>

\* the await returns or throws; nothing catches the throw
GetProductsReply ==
    \E call \in Replied(GET_ALL) :
        /\ IF IsResolved(call.settle)
           THEN completed' = Completed(call.req, call.seen, "queryAll",
                                       QueryAllThen(call.settle.resolved))
           ELSE completed' \in UnhandledRejection(call.req, call.seen, "queryAll")
        /\ Deliver(call)
        /\ UNCHANGED <<routes, faults, collection, nextOid, history, okDeletes>>

(* app.get('/products/:id'): db.queryById builds the ObjectId before it    *)
(* returns a promise, so a throw there is outside the .catch of the route  *)
GetProductById ==
    \E id \in PathIds :
        LET req == Request(GET_ONE, id, EmptyBody)
        IN /\ Accepting
           /\ IF ObjectIdThrows(id)
              THEN /\ completed' \in UnhandledRejection(req, NoSeen, "queryById")
                   /\ UNCHANGED pending
              ELSE /\ Issue(Call(req, 0, Unsettled, NoSeen))
                   /\ UNCHANGED completed
           /\ UNCHANGED <<routes, faults, collection, nextOid, history, okDeletes>>

\* the store runs findOne({_id})
QueryByIdApplied ==
    \E call \in Issued(GET_ONE), fails \in FailChoices :
        LET r == IF fails THEN StoreFailure(collection)
                 ELSE DB_queryById(collection, call.req.id)
        IN /\ Apply(call, r.settle, SeenByRead(ObjectId(call.req.id)))
           /\ UNCHANGED <<routes, faults, collection, nextOid, completed, history, okDeletes>>

GetProductByIdReply ==
    \E call \in Replied(GET_ONE) :
        /\ completed' = Completed(call.req, call.seen, "queryById",
                                  IF IsResolved(call.settle)
                                  THEN QueryByIdThen(call.settle.resolved)
                                  ELSE QueryByIdCatch)
        /\ Deliver(call)
        /\ UNCHANGED <<routes, faults, collection, nextOid, history, okDeletes>>

(* app.post('/products'): validation first, then db.insert; insertOne      *)
(* gives the product its _id at the call                                   *)
PostProducts ==
    \E body \in PostBodies :
        LET req == Request(POST, NoId, body)
            errors == ValidationErrors(routes, body)
        IN /\ Accepting
           /\ IF ~ResultIsEmpty(errors)
              THEN /\ completed' = Completed(req, NoSeen, "none", Invalid(errors))
                   /\ UNCHANGED <<pending, nextOid>>
              ELSE /\ nextOid < MaxProducts
                   /\ nextOid' = Advance(nextOid)
                   /\ Issue(Call(req, Advance(nextOid), Unsettled, NoSeen))
                   /\ UNCHANGED completed
           /\ UNCHANGED <<routes, faults, collection, history, okDeletes>>

\* the store runs the insert
InsertApplied ==
    \E call \in Issued(POST), fails \in FailChoices :
        LET r == IF fails THEN StoreFailure(collection)
                 ELSE DB_insert(collection, call.req.body, call.n)
        IN /\ collection' = r.coll
           /\ history' = IF IsResolved(r.settle)
                         THEN Applied("POST", GeneratedOid(call.n), call.req.body)
                         ELSE history
           /\ Apply(call, r.settle, NoSeen)
           /\ UNCHANGED <<routes, faults, nextOid, completed, okDeletes>>

PostProductsReply ==
    \E call \in Replied(POST) :
        LET res == IF IsResolved(call.settle) THEN InsertThen(call.settle.resolved)
                   ELSE InsertCatch
        IN /\ completed' = Completed(call.req, call.seen, "insert", res)
           /\ history' = IF res.status = 201
                         THEN Answered("POST", ObjectId(res.resBody.product["_id"].hex),
                                       call.req.body)
                         ELSE history
           /\ Deliver(call)
           /\ UNCHANGED <<routes, faults, collection, nextOid, okDeletes>>

(* app.put('/products/:id'): validation first, then db.update, which       *)
(* builds the ObjectId before it returns a promise                         *)
PutProduct ==
    \E id \in PathIds, body \in PutBodies :
        LET req == Request(PUT, id, body)
            errors == ValidationErrors(routes, body)
        IN /\ Accepting
           /\ IF ~ResultIsEmpty(errors)
              THEN /\ completed' = Completed(req, NoSeen, "none", Invalid(errors))
                   /\ UNCHANGED pending
              ELSE IF ObjectIdThrows(id)
              THEN /\ completed' \in UnhandledRejection(req, NoSeen, "update")
                   /\ UNCHANGED pending
              ELSE /\ Issue(Call(req, 0, Unsettled, NoSeen))
                   /\ UNCHANGED completed
           /\ UNCHANGED <<routes, faults, collection, nextOid, history, okDeletes>>

\* the store runs replaceOne; DB.update's callbacks settle its promise
UpdateApplied ==
    \E call \in Issued(PUT), fails \in FailChoices :
        LET r == IF fails THEN StoreFailure(collection)
                 ELSE DB_update(collection, call.req.id, call.req.body)
        IN /\ collection' = r.coll
           /\ history' = IF IsResolved(r.settle)
                         THEN Applied("PUT", ObjectId(call.req.id), call.req.body)
                         ELSE history
           /\ Apply(call, r.settle, SeenByWrite(ObjectId(call.req.id)))
           /\ UNCHANGED <<routes, faults, nextOid, completed, okDeletes>>

PutProductReply ==
    \E call \in Replied(PUT) :
        LET res == IF IsResolved(call.settle) THEN UpdateThen(call.settle.resolved)
                   ELSE UpdateCatch
        IN /\ completed' = Completed(call.req, call.seen, "update", res)
           /\ history' = IF res.status = 200
                         THEN Answered("PUT", ObjectId(call.req.id), call.req.body)
                         ELSE history
           /\ Deliver(call)
           /\ UNCHANGED <<routes, faults, collection, nextOid, okDeletes>>

(* app.delete('/products/:id'): db.delete builds the ObjectId first *)
DeleteProduct ==
    \E id \in PathIds :
        LET req == Request(DELETE, id, EmptyBody)
        IN /\ Accepting
           /\ IF ObjectIdThrows(id)
              THEN /\ completed' \in UnhandledRejection(req, NoSeen, "delete")
                   /\ UNCHANGED pending
              ELSE /\ Issue(Call(req, 0, Unsettled, NoSeen))
                   /\ UNCHANGED completed
           /\ UNCHANGED <<routes, faults, collection, nextOid, history, okDeletes>>

\* the store runs findOneAndDelete; DB.delete's callback settles its promise
DeleteApplied ==
    \E call \in Issued(DELETE), fails \in FailChoices :
        LET r == IF fails THEN StoreFailure(collection)
                 ELSE DB_delete(collection, call.req.id)
        IN /\ collection' = r.coll
           /\ history' = IF IsResolved(r.settle) /\ r.settle.resolved # Null
                         THEN Applied("DELETE", ObjectId(call.req.id),
                                      Without(r.settle.resolved, "_id"))
                         ELSE history
           /\ Apply(call, r.settle, SeenByWrite(ObjectId(call.req.id)))
           /\ UNCHANGED <<routes, faults, nextOid, completed, okDeletes>>

DeleteProductReply ==
    \E call \in Replied(DELETE) :
        LET res == IF IsResolved(call.settle) THEN DeleteThen(call.settle.resolved)
                   ELSE DeleteCatch
        IN /\ completed' = Completed(call.req, call.seen, "delete", res)
           /\ history' = IF res.status = 200
                         THEN Answered("DELETE", ObjectId(call.req.id),
                                       Without(call.settle.resolved, "_id"))
                         ELSE history
           /\ okDeletes' = IF res.status = 200 THEN CountOk(ObjectId(call.req.id))
                           ELSE okDeletes
           /\ Deliver(call)
           /\ UNCHANGED <<routes, faults, collection, nextOid>>

Next ==
    \/ GetProducts
    \/ QueryAllApplied
    \/ GetProductsReply
    \/ GetProductById
    \/ QueryByIdApplied
    \/ GetProductByIdReply
    \/ PostProducts
    \/ InsertApplied
    \/ PostProductsReply
    \/ PutProduct
    \/ UpdateApplied
    \/ PutProductReply
    \/ DeleteProduct
    \/ DeleteApplied
    \/ DeleteProductReply

\* index.js on a store whose calls all succeed
Spec == Init /\ [][Next]_vars

\* either route-definition file on a store whose calls all succeed
SpecVariants == InitVariants /\ [][Next]_vars

\* index.js on a store whose calls may reject
SpecFaulty == InitFaulty /\ [][Next]_vars

----------------------------------------------------------------------------
(* Properties *)

\* a payload with all five fields present and valid and no other field
ValidPayload(body) ==
    DOMAIN body = ProductFields /\ ValidationErrors("index.js", body) = <<>>

WellFormed(req) == ~ObjectIdThrows(req.id)

\* the identifier the path of the completed request names
Target == ObjectId(completed.req.id)

\* a product as a response shows it: the payload under the hex form of its identifier
Shown(payload, oid) == [product |-> With(payload, "_id", [hex |-> toHexString(oid)])]

NotFound == [text |-> "Product not found"]

\* the call the store has applied in this step
Added(call) ==
    IsSettled(call.settle) /\ CopiesIn(call, pending') = CopiesIn(call, pending) + 1

\* C1: a POST of a valid payload is answered 201 with the payload and an
\* assigned id, and a GET on that id issued after that answer, with no PUT
\* or DELETE applied to the id since the insert, is answered 200 with the
\* five values of the payload under that id.
C1_PostThenGet ==
    /\ (completed.req.method = POST /\ ValidPayload(completed.req.body))
          => /\ completed.status = 201
             /\ DOMAIN completed.resBody = {"product"}
             /\ DOMAIN completed.resBody.product = ProductFields \cup {"_id"}
             /\ Without(completed.resBody.product, "_id") = completed.req.body
             /\ ObjectId(completed.resBody.product["_id"].hex) \in AllOids
    /\ (completed.req.method = GET_ONE /\ WellFormed(completed.req)
            /\ completed.seen.expect.by = "POST")
          => /\ completed.status = 200
             /\ completed.resBody = Shown(completed.seen.expect.doc, Target)

C1_Witness ==
    /\ completed.req.method = GET_ONE
    /\ WellFormed(completed.req)
    /\ completed.seen.expect.by = "POST"
    /\ completed.status = 200

\* C2: once a DELETE on an id has been answered 200, the product is gone for
\* good: no later insert brings the id back and every GET on it issued
\* after that answer is answered 404.
C2_DeletedStaysGone ==
    /\ \A o \in AllOids : okDeletes[o] >= 1 => Matching(collection, o) = {}
    /\ (completed.req.method = GET_ONE /\ WellFormed(completed.req)
            /\ completed.seen.gone)
          => /\ completed.status = 404
             /\ completed.resBody = NotFound

C2_Witness ==
    /\ completed.req.method = GET_ONE
    /\ WellFormed(completed.req)
    /\ completed.seen.gone
    /\ completed.status = 404
    /\ nextOid = MaxProducts

\* C3: GET, DELETE and PUT (with a valid body) on a path id that is not a
\* valid store identifier are answered 404.
C3_MalformedIdIs404 ==
    (/\ \/ completed.req.method \in {GET_ONE, DELETE}
        \/ completed.req.method = PUT /\ ValidPayload(completed.req.body)
     /\ ~WellFormed(completed.req))
        => completed.status = 404

\* C4: PUT with a valid body on a well-formed id that matches no stored
\* product is answered 404 "Product not found".
C4_PutUnknownIs404 ==
    (/\ completed.req.method = PUT
     /\ ValidPayload(completed.req.body)
     /\ WellFormed(completed.req)
     /\ ~completed.seen.found)
        => completed.status = 404 /\ completed.resBody = NotFound

\* C5: a POST or PUT whose body fails a validation rule is answered 400 with
\* the validation errors, calls no gateway operation and leaves the
\* collection (and the calls in flight) as they were.
C5_RejectedBeforePersistence ==
    /\ []((completed.req.method \in {POST, PUT}
             /\ ValidationErrors(routes, completed.req.body) # <<>>)
            => /\ completed.status = 400
               /\ completed.resBody =
                      [errors |-> ValidationErrors(routes, completed.req.body)]
               /\ completed.called = "none")
    /\ [][(completed' # completed /\ completed'.status = 400)
            => UNCHANGED <<collection, nextOid, pending, history>>]_vars

C5_Witness ==
    /\ completed.req.method = PUT
    /\ completed.status = 400
    /\ collection # <<>>
    /\ pending # EmptyBag

\* C6: a POST or PUT body with a field other than the five recognized ones
\* is answered 400; a body of exactly the five fields with valid values is
\* not rejected with "No additional fields allowed".
C6_ExactFieldSet ==
    completed.req.method \in {POST, PUT}
        => /\ ~(DOMAIN completed.req.body \subseteq ProductFields)
                => completed.status = 400
           /\ ValidPayload(completed.req.body)
                => ~(/\ completed.status = 400
                     /\ \E i \in 1..Len(completed.resBody.errors) :
                            completed.resBody.errors[i].msg = "No additional fields allowed")

\* C7: PUT of a valid payload on an existing id is answered 200 and replaces
\* the whole document under the same id; the number of products and every
\* other product stay as they were; a GET on the id issued after that
\* answer, with no later write applied to the id, returns the five values
\* of the payload.
C7_PutReplaces ==
    /\ []((completed.req.method = PUT /\ ValidPayload(completed.req.body)
             /\ WellFormed(completed.req) /\ completed.seen.found)
            => /\ completed.status = 200
               /\ completed.resBody = [product |-> completed.req.body])
    /\ []((completed.req.method = GET_ONE /\ WellFormed(completed.req)
             /\ completed.seen.expect.by = "PUT")
            => /\ completed.status = 200
               /\ completed.resBody = Shown(completed.seen.expect.doc, Target))
    /\ [][\A call \in BagToSet(pending') :
            (/\ Added(call)
             /\ call.req.method = PUT
             /\ Matching(collection, ObjectId(call.req.id)) # {})
            => LET oid == ObjectId(call.req.id)
               IN /\ findOne(collection', oid) = With(call.req.body, "_id", [oid |-> oid])
                  /\ Len(collection') = Len(collection)
                  /\ \A i \in 1..Len(collection) :
                        IdOf(collection[i]) # oid => collection'[i] = collection[i]]_vars

C7_Witness ==
    /\ completed.req.method = GET_ONE
    /\ WellFormed(completed.req)
    /\ completed.seen.expect.by = "PUT"
    /\ completed.status = 200
    /\ Len(collection) = 2

\* C8: every stored product has exactly the five fields plus its id, and
\* distinct stored products have distinct ids.
C8_StoredShape ==
    /\ \A i \in 1..Len(collection) : DOMAIN collection[i] = ProductFields \cup {"_id"}
    /\ \A i, j \in 1..Len(collection) :
          IdOf(collection[i]) = IdOf(collection[j]) => i = j

\* C9: of the DELETEs on one id, concurrent or not, exactly one is answered
\* 200 with the removed document and the others 404 "Product not found",
\* in whatever order the answers come; a DELETE that matches nothing is
\* answered 404 and changes nothing.
C9_DeleteAtomic ==
    /\ [](\A o \in AllOids :
            /\ okDeletes[o] <= 1
            /\ (\A call \in InFlight(DELETE) : ObjectId(call.req.id) # o)
                  => (okDeletes[o] = 1 <=> history[o].by = "DELETE"))
    /\ []((completed.req.method = DELETE /\ WellFormed(completed.req))
            => /\ completed.status \in {200, 404}
               /\ completed.status = 200 <=> completed.seen.found
               /\ completed.status = 200
                    => completed.resBody = Shown(history[Target].doc, Target)
               /\ completed.status = 404 => completed.resBody = NotFound)
    /\ [][\A call \in BagToSet(pending') :
            (Added(call) /\ call.req.method = DELETE)
            => LET oid == ObjectId(call.req.id)
               IN /\ Matching(collection', oid) = {}
                  /\ Len(collection') = Len(collection) - Cardinality(Matching(collection, oid))
                  /\ Matching(collection, oid) = {} => collection' = collection]_vars

\* the DELETE that found nothing is answered first, the one that removed the
\* document is still waiting for its reply
C9_Witness ==
    /\ completed.req.method = DELETE
    /\ completed.status = 404
    /\ \E call \in InFlight(DELETE) :
          /\ ObjectId(call.req.id) = Target
          /\ call.seen.found

\* C10: no accepted request is left without a response, also when the
\* gateway call fails.
C10_AlwaysAnswered ==
    completed.req.method # "none" => completed.status # NoResponse

====
